---------------------------- MODULE Spec2Model ----------------------------
(***************************************************************************)
(* GovMate web front end.                                                  *)
(*                                                                         *)
(*  - ResultsPageContent (apps/web/app/results/page.tsx): the results page *)
(*    reads the Query from the URL search parameters and, from a React     *)
(*    effect, runs fetchAll, which issues five requests, waits for all of  *)
(*    them with Promise.allSettled and writes the decoded bodies into five *)
(*    pieces of component state.                                           *)
(*  - HomePage (the query form): selecting a state runs fetchSuburbs,      *)
(*    which resolves the list of selectable suburbs.                       *)
(*                                                                         *)
(* JavaScript is single threaded: an async function runs without           *)
(* interruption from one await to the next.  Every action below is one     *)
(* such run-to-completion segment.                                         *)
(***************************************************************************)
EXTENDS Integers, Sequences, FiniteSets, TLC

VARIABLES
    \* ---- results page -------------------------------------------------
    searchParams,   \* useSearchParams(): the URL's query parameters
    mounted,        \* the component has rendered and run its mount effect
    navs,           \* number of URL changes so far (bounded by MaxNav)
    services,       \* useState<Service[]>([])
    seifa,          \* useState<SeifaData | null>(null)
    labour,         \* useState<LabourData | null>(null)
    rulecard,       \* useState<RuleCard | null>(null)
    aiInsight,      \* useState<AIInsight | null>(null)
    loading,        \* useState(false)
    error,          \* useState<string | null>(null)
    aggs,           \* the fetchAll invocations that have not returned yet
    fetchCalls,     \* number of fetchAll invocations so far (history)
    mocked,         \* the responses a test serves to fetchAll, if it mocks them
    firstResult,    \* what the page showed after the first of two runs (history)
    \* ---- home page ----------------------------------------------------
    selectedState,      \* useState("")
    selectedSuburb,     \* useState("")
    availableSuburbs,   \* useState<string[]>([])
    loadingSuburbs,     \* useState(false)
    suburbCalls,        \* the fetchSuburbs invocations that have not returned
    suburbRequests,     \* number of requests sent to /suburbs-list (history)
    selects             \* number of state selections so far (bounded)

resultsVars == <<searchParams, mounted, navs, services, seifa, labour, rulecard,
                 aiInsight, loading, error, aggs, fetchCalls, mocked, firstResult>>
homeVars == <<selectedState, selectedSuburb, availableSuburbs, loadingSuburbs,
              suburbCalls, suburbRequests, selects>>
vars == <<resultsVars, homeVars>>

---------------------------------------------------------------------------
(* Bounds of the model.                                                    *)

\* URL changes of the mounted results page
MaxNav == 1
\* state selections in the query form
MaxSelect == 2

---------------------------------------------------------------------------
(* Results page: values.                                                   *)

\* JavaScript null
Null == [src |-> "null"]

\* setError(null) / setError("Error fetching data")
NoError == "null"
ErrorMessage == "Error fetching data"

\* The values the URL parameters are drawn from ("" is a missing parameter:
\* searchParams.get(..) || "").
Categories == {"", "housing"}
States == {"", "QLD", "NSW"}
Suburbs == {"", "Brisbane City"}
UserQueries == {"", "student accommodation"}
FullQueries == {"", "fq"}

\* The query of the specification's scenario (section 8, scenario 7).
BaseParams ==
    [category |-> "housing", state |-> "QLD", suburb |-> "Brisbane City",
     user_query |-> "student accommodation", fullQuery |-> "fq"]

ParamNames == {"category", "state", "suburb", "user_query", "fullQuery"}

\* The URLs of the model: the scenario's query and every query that differs
\* from it in one parameter (one parameter missing, or the other state).
SearchParamsSet ==
    {sp \in [category : Categories, state : States, suburb : Suburbs,
             user_query : UserQueries, fullQuery : FullQueries] :
        Cardinality({f \in ParamNames : sp[f] # BaseParams[f]}) <= 1}

\* The five requests of fetchAll, in the order their results are handled.
Order == <<"intent", "services", "seifa", "labour", "rulecard">>
Sources == {Order[k] : k \in 1..5}

\* (variant: fullQuery listed among the dependencies as well)
DepsWithFullQuery(sp) ==
    [category |-> sp.category, state |-> sp.state, suburb |-> sp.suburb,
     userQuery |-> sp.user_query, fullQuery |-> sp.fullQuery]

\* The dependency array of the effect, computed from the search parameters.
Deps(sp) ==
    [category |-> sp.category, state |-> sp.state, suburb |-> sp.suburb,
     userQuery |-> sp.user_query]

\* category && state && suburb && userQuery
FullyPopulated(d) ==
    d.category # "" /\ d.state # "" /\ d.suburb # "" /\ d.userQuery # ""

\* The request fetchAll sends to source s for the query q it closed over:
\* the parameters that go into the URL or the body ("-" : not sent).
Request(s, q) ==
    CASE s = "intent"   -> [src |-> s, category |-> q.category, state |-> q.state,
                            suburb |-> q.suburb, user_query |-> q.userQuery]
      [] s = "services" -> [src |-> s, category |-> q.category, state |-> q.state,
                            suburb |-> q.suburb, user_query |-> "-"]
      [] s = "seifa"    -> [src |-> s, category |-> "-", state |-> "-",
                            suburb |-> q.suburb, user_query |-> "-"]
      [] s = "labour"   -> [src |-> s, category |-> "-", state |-> q.state,
                            suburb |-> "-", user_query |-> "-"]
      [] s = "rulecard" -> [src |-> s, category |-> q.category, state |-> "-",
                            suburb |-> q.suburb, user_query |-> "-"]

\* What a settled request holds when the code reads it:
\*   "rejected"  the fetch promise rejected (network error)
\*   "non2xx"    fulfilled, response.ok is false
\*   "ok"        fulfilled, response.ok is true
FetchResults == {"rejected", "non2xx", "ok"}

\* What response.json() of an ok response does:
\*   "good"     resolves to a body of the expected shape
\*   "invalid"  rejects: the body is not JSON
Bodies == {"good", "invalid"}

\* The JSON value response.json() resolves to: the server's answer to the
\* request, which for the service lookup is wrapped as {services: [...]}.
Decoded(s, q) ==
    IF s = "services" THEN [services |-> <<Request(s, q)>>] ELSE Request(s, q)

\* servData.services || []
ServicesOf(data) == IF "services" \in DOMAIN data THEN data.services ELSE <<>>

\* intentRes.status === 'fulfilled' && intentRes.value.ok
Usable(r) == r = "ok"

\* The responses of the five sources when they are not mocked: each is
\* whatever the network delivers, drawn when the code reads it.
Unmocked == [s \in Sources |-> "live"]

\* No earlier run to compare with.
NoResult == [fields |-> <<>>, status |-> "none", error |-> NoError]

\* (variant: resolves as soon as one request has settled, as Promise.race)
AnySettled(pending) == pending < Len(Order)

\* Promise.allSettled resolves when no request is pending any more.
AllSettledResolved(pending) == pending = 0

\* (variant: the finally block does not clear the flag)
FinallyLoadingKept == TRUE

\* The value the finally block gives to loading.
FinallyLoading == FALSE

\* (variant: the message is set on every return, not only in the catch block)
CatchErrorAlways(threw, err) == ErrorMessage

\* The error state when fetchAll returns: the catch block sets the message.
CatchError(threw, err) == IF threw THEN ErrorMessage ELSE err

\* (variant: the labour body handed to the area setter)
SetterOfSwapped(s) ==
    CASE s = "intent"   -> "aiInsight"
      [] s = "services" -> "services"
      [] s = "seifa"    -> "seifa"
      [] s = "labour"   -> "seifa"
      [] s = "rulecard" -> "rulecard"

\* The state setter that receives the body of source s.
SetterOf(s) ==
    CASE s = "intent"   -> "aiInsight"
      [] s = "services" -> "services"
      [] s = "seifa"    -> "seifa"
      [] s = "labour"   -> "labour"
      [] s = "rulecard" -> "rulecard"

\* The page the component renders.
Status ==
    IF loading THEN "loading"
    ELSE IF error # NoError THEN "failed"
    ELSE IF fetchCalls = 0 THEN "idle"
    ELSE "ready"


---------------------------------------------------------------------------
(* Results page: fetchAll.                                                 *)

AggIds == 1..(MaxNav + 1)

\* What became of a source in one invocation (history):
\*   "unread"  its result has not been read (yet)
\*   "failed"  its result was not usable: rejected, or a non-2xx status
\*   "good" / "invalid"  its body, once json() settled
Outcomes == {"unread", "failed", "good", "invalid"}

Unread == [s \in Sources |-> "unread"]

\* (variant: setServices(prev => [...prev, ...v]))
SetStateAppending(setter, v) ==
    /\ aiInsight' = IF setter = "aiInsight" THEN v ELSE aiInsight
    /\ services' = IF setter = "services" THEN services \o v ELSE services
    /\ seifa' = IF setter = "seifa" THEN v ELSE seifa
    /\ labour' = IF setter = "labour" THEN v ELSE labour
    /\ rulecard' = IF setter = "rulecard" THEN v ELSE rulecard

\* setAiInsight / setServices / setSeifa / setLabour / setRulecard
SetState(setter, v) ==
    /\ aiInsight' = IF setter = "aiInsight" THEN v ELSE aiInsight
    /\ services' = IF setter = "services" THEN v ELSE services
    /\ seifa' = IF setter = "seifa" THEN v ELSE seifa
    /\ labour' = IF setter = "labour" THEN v ELSE labour
    /\ rulecard' = IF setter = "rulecard" THEN v ELSE rulecard

\* The argument of the setter call for source s.
Written(s, data) == IF s = "services" THEN ServicesOf(data) ELSE data

\* (variant: without setLoading(true))
FetchAllNotLoading(q) ==
    /\ loading' = loading
    /\ error' = NoError
    /\ fetchCalls' = fetchCalls + 1
    /\ aggs' = aggs @@ ((fetchCalls + 1) :>
                  [q |-> q, pending |-> Len(Order), pc |-> "allSettled", at |-> 0,
                   outcome |-> Unread, prior |-> DOMAIN aggs])

\* fetchAll up to its first await: the two state updates and the five
\* requests handed to Promise.allSettled.
FetchAll(q) ==
    /\ loading' = TRUE
    /\ error' = NoError
    /\ fetchCalls' = fetchCalls + 1
    /\ aggs' = aggs @@ ((fetchCalls + 1) :>
                  [q |-> q, pending |-> Len(Order), pc |-> "allSettled", at |-> 0,
                   outcome |-> Unread, prior |-> DOMAIN aggs])

\* The effect body: if (category && state && suburb && userQuery) fetchAll()
Effect(d) ==
    IF FullyPopulated(d)
    THEN FetchAll(d)
    ELSE UNCHANGED <<loading, error, fetchCalls, aggs>>

\* First render: the effect runs once after mounting.
Mount ==
    /\ ~mounted
    /\ mounted' = TRUE
    /\ Effect(Deps(searchParams))
    /\ UNCHANGED <<searchParams, navs, services, seifa, labour, rulecard,
                   aiInsight, mocked, firstResult>>
    /\ UNCHANGED homeVars

\* The URL's query string changes while the page is mounted; the component
\* re-renders and React runs the effect again iff a dependency changed.
Navigate(sp) ==
    /\ mounted
    /\ navs < MaxNav
    /\ sp # searchParams
    /\ searchParams' = sp
    /\ navs' = navs + 1
    /\ IF Deps(sp) # Deps(searchParams)
       THEN Effect(Deps(sp))
       ELSE UNCHANGED <<loading, error, fetchCalls, aggs>>
    /\ UNCHANGED <<mounted, services, seifa, labour, rulecard, aiInsight,
                   mocked, firstResult>>
    /\ UNCHANGED homeVars

\* One of the fetch promises of invocation i that are still pending settles;
\* Promise.allSettled counts the promises that remain.
Settle(i) ==
    /\ i \in DOMAIN aggs
    /\ aggs[i].pending > 0
    /\ aggs' = [aggs EXCEPT ![i].pending = @ - 1]
    /\ UNCHANGED <<searchParams, mounted, navs, services, seifa, labour, rulecard,
                   aiInsight, loading, error, fetchCalls, mocked, firstResult>>
    /\ UNCHANGED homeVars

\* fetchAll returns: the catch block if json() threw, then the finally
\* block, and the invocation is over.
Return(i, out, threw) ==
    /\ loading' = FinallyLoading
    /\ error' = CatchError(threw, error)
    /\ aggs' = [j \in DOMAIN aggs \ {i} |-> aggs[j]]

\* Where the if-statements from the k-th on can stop.  A result is drawn
\* when the code reads it: a usable k-th result stops the function at
\* `await res.value.json()`, any other is skipped; 6: the function has
\* run past the last if-statement.
RECURSIVE Stops(_)
Stops(k) ==
    IF k > Len(Order)
    THEN {Len(Order) + 1}
    ELSE UNION {IF Usable(r) THEN {k} ELSE Stops(k + 1) : r \in FetchResults}

\* Invocation i runs the if-statements from the k-th on, up to the next
\* await or to its return.
Scan(i, k, out) ==
    \E n \in Stops(k) :
        LET out2 == [s \in Sources |->
                       IF \E j \in k..(n - 1) : Order[j] = s
                       THEN "failed" ELSE out[s]]
        IN  IF n <= Len(Order)
            THEN /\ aggs' = [aggs EXCEPT ![i].pc = "json", ![i].at = n,
                                         ![i].outcome = out2]
                 /\ UNCHANGED <<loading, error>>
            ELSE Return(i, out2, FALSE)

\* Promise.allSettled has resolved: invocation i resumes.
AllSettled(i) ==
    /\ i \in DOMAIN aggs
    /\ aggs[i].pc = "allSettled"
    /\ AllSettledResolved(aggs[i].pending)
    /\ Scan(i, 1, aggs[i].outcome)
    /\ UNCHANGED <<searchParams, mounted, navs, services, seifa, labour, rulecard,
                   aiInsight, fetchCalls, mocked, firstResult>>
    /\ UNCHANGED homeVars

\* json() of the response invocation i is decoding settles.  A rejection is
\* thrown into the catch block; a value goes to the setter and the function
\* runs on.
JsonDone(i, body) ==
    /\ i \in DOMAIN aggs
    /\ aggs[i].pc = "json"
    /\ LET a == aggs[i]
           s == Order[a.at]
           out == [a.outcome EXCEPT ![s] = body]
       IN  IF body = "invalid"
           THEN /\ Return(i, out, TRUE)
                /\ UNCHANGED <<services, seifa, labour, rulecard, aiInsight>>
           ELSE /\ SetState(SetterOf(s), Written(s, Decoded(s, a.q)))
                /\ Scan(i, a.at + 1, out)
    /\ UNCHANGED <<searchParams, mounted, navs, fetchCalls, mocked, firstResult>>
    /\ UNCHANGED homeVars

---------------------------------------------------------------------------
(* Home page: the query form and fetchSuburbs.                             *)

\* STATES: the options of the state select ("" is its placeholder option).
STATES == <<"NSW", "VIC", "QLD", "WA", "SA", "TAS", "ACT", "NT">>
StateOptions == {""} \cup {STATES[k] : k \in 1..Len(STATES)}

SUBURBS_BY_STATE ==
    [NSW |-> <<"Sydney CBD", "Parramatta", "Newcastle", "Wollongong", "Central Coast",
               "Blue Mountains", "Hunter Valley", "Illawarra", "North Shore",
               "Western Sydney">>,
     VIC |-> <<"Melbourne CBD", "Geelong", "Ballarat", "Bendigo", "Shepparton",
               "Mildura", "Warrnambool", "Albury-Wodonga", "Latrobe Valley",
               "Mornington Peninsula">>,
     QLD |-> <<"Brisbane City", "Gold Coast", "Sunshine Coast", "Townsville", "Cairns",
               "Toowoomba", "Mackay", "Rockhampton", "Bundaberg", "Hervey Bay">>,
     WA  |-> <<"Perth CBD", "Fremantle", "Joondalup", "Rockingham", "Mandurah",
               "Albany", "Bunbury", "Geraldton", "Kalgoorlie", "Broome">>,
     SA  |-> <<"Adelaide CBD", "Mount Gambier", "Whyalla", "Murray Bridge",
               "Port Augusta", "Port Pirie", "Port Lincoln", "Renmark", "Berri",
               "Mount Barker">>,
     TAS |-> <<"Hobart", "Launceston", "Devonport", "Burnie", "Ulverstone",
               "Kingston", "Clarence", "Glenorchy", "New Norfolk", "Bridgewater">>,
     ACT |-> <<"Canberra City", "Belconnen", "Woden", "Tuggeranong", "Gungahlin",
               "Fyshwick", "Mitchell", "Fyshwick", "Dickson", "Braddon">>,
     NT  |-> <<"Darwin", "Alice Springs", "Palmerston", "Katherine", "Tennant Creek",
               "Jabiru", "Nhulunbuy", "Alyangula", "Jabiru", "Tennant Creek">>]

\* (variant: no static list behind the endpoint)
FallbackNone(state) == <<>>

\* SUBURBS_BY_STATE[state as keyof typeof SUBURBS_BY_STATE] || []
Fallback(state) ==
    IF state \in DOMAIN SUBURBS_BY_STATE THEN SUBURBS_BY_STATE[state] ELSE <<>>

\* The states the user picks in the model.
PickedStates == {"", "NSW", "NT"}

\* What the suburb-list endpoint holds for a state (the server's own data).
ServerSuburbs(state) ==
    CASE state = "NSW" -> <<"Sydney", "Albury">>
      [] state = "NT"  -> <<"Darwin City">>
      [] OTHER         -> <<"Capital">>

\* What response.json() of an ok suburb-list response does:
\*   "list"     resolves to {suburbs: [the server's suburbs]}
\*   "empty"    resolves to {suburbs: []}
\*   "nofield"  resolves to {} : valid JSON without a suburbs field
\*   "invalid"  rejects: the body is not JSON
SuburbBodies == {"list", "empty", "nofield", "invalid"}

SuburbData(state, body) ==
    CASE body = "list"  -> [suburbs |-> ServerSuburbs(state)]
      [] body = "empty" -> [suburbs |-> <<>>]
      [] OTHER          -> [src |-> "{}"]

\* data.suburbs || []
SuburbsOf(data) == IF "suburbs" \in DOMAIN data THEN data.suburbs ELSE <<>>

\* (variant: without the early return)
StateNeverMissing(state) == FALSE

\* if (!state)
StateMissing(state) == state = ""

SuburbCallIds == 1..MaxSelect

\* fetchSuburbs up to its first await.
FetchSuburbs(state) ==
    IF StateMissing(state)
    THEN /\ availableSuburbs' = <<>>
         /\ UNCHANGED <<loadingSuburbs, suburbCalls, suburbRequests>>
    ELSE /\ loadingSuburbs' = TRUE
         /\ suburbRequests' = suburbRequests + 1
         /\ suburbCalls' = suburbCalls @@ ((suburbRequests + 1) :>
                              [state |-> state, pc |-> "fetch"])
         /\ UNCHANGED availableSuburbs

\* onChange of the state select.
SelectState(state) ==
    /\ selects < MaxSelect
    /\ state # selectedState
    /\ selects' = selects + 1
    /\ selectedState' = state
    /\ selectedSuburb' = ""
    /\ FetchSuburbs(state)
    /\ UNCHANGED resultsVars

\* onChange of the suburb select, which is disabled while no state is
\* selected or the list is loading, and offers "" and the available suburbs.
SelectSuburb(suburb) ==
    /\ selectedState # "" /\ ~loadingSuburbs
    /\ suburb = "" \/ \E k \in 1..Len(availableSuburbs) : availableSuburbs[k] = suburb
    /\ suburb # selectedSuburb
    /\ selectedSuburb' = suburb
    /\ UNCHANGED <<selectedState, availableSuburbs, loadingSuburbs, suburbCalls,
                   suburbRequests, selects>>
    /\ UNCHANGED resultsVars

\* fetchSuburbs returns: its finally block.
SuburbReturn(i, list) ==
    /\ availableSuburbs' = list
    /\ loadingSuburbs' = FALSE
    /\ suburbCalls' = [j \in DOMAIN suburbCalls \ {i} |-> suburbCalls[j]]

\* The fetch of invocation i settles: an ok response goes on to json(), any
\* other response takes the else branch and a rejection the catch block.
SuburbFetchSettles(i, r) ==
    /\ i \in DOMAIN suburbCalls
    /\ suburbCalls[i].pc = "fetch"
    /\ IF Usable(r)
       THEN /\ suburbCalls' = [suburbCalls EXCEPT ![i].pc = "json"]
            /\ UNCHANGED <<availableSuburbs, loadingSuburbs>>
       ELSE SuburbReturn(i, Fallback(suburbCalls[i].state))
    /\ UNCHANGED <<selectedState, selectedSuburb, suburbRequests, selects>>
    /\ UNCHANGED resultsVars

\* json() of invocation i settles: a value goes to setAvailableSuburbs, a
\* rejection to the catch block.
SuburbJsonSettles(i, body) ==
    /\ i \in DOMAIN suburbCalls
    /\ suburbCalls[i].pc = "json"
    /\ IF body = "invalid"
       THEN SuburbReturn(i, Fallback(suburbCalls[i].state))
       ELSE SuburbReturn(i, SuburbsOf(SuburbData(suburbCalls[i].state, body)))
    /\ UNCHANGED <<selectedState, selectedSuburb, suburbRequests, selects>>
    /\ UNCHANGED resultsVars

---------------------------------------------------------------------------
(* Specification of the results page.                                      *)

\* The component state after the first render.
InitState ==
    /\ mounted = FALSE
    /\ navs = 0
    /\ services = <<>>
    /\ seifa = Null
    /\ labour = Null
    /\ rulecard = Null
    /\ aiInsight = Null
    /\ loading = FALSE
    /\ error = NoError
    /\ aggs = <<>>
    /\ fetchCalls = 0

InitResults ==
    /\ searchParams \in SearchParamsSet
    /\ InitState
    /\ mocked = Unmocked
    /\ firstResult = NoResult

InitHome ==
    /\ selectedState = ""
    /\ selectedSuburb = ""
    /\ availableSuburbs = <<>>
    /\ loadingSuburbs = FALSE
    /\ suburbCalls = <<>>
    /\ suburbRequests = 0
    /\ selects = 0

Init == InitResults /\ InitHome

Next ==
    \/ Mount
    \/ \E sp \in SearchParamsSet : Navigate(sp)
    \/ \E i \in AggIds : Settle(i)
    \/ \E i \in AggIds : AllSettled(i)
    \/ \E i \in AggIds, body \in Bodies : JsonDone(i, body)

Spec == Init /\ [][Next]_vars

---------------------------------------------------------------------------
(* Specification of the home page.                                         *)

PickedSuburbs ==
    {""} \cup UNION {{l[k] : k \in 1..Len(l)} :
                        l \in {Fallback(st) : st \in PickedStates}
                             \cup {ServerSuburbs(st) : st \in PickedStates}}

NextHome ==
    \/ \E state \in PickedStates : SelectState(state)
    \/ \E suburb \in PickedSuburbs : SelectSuburb(suburb)
    \/ \E i \in SuburbCallIds, r \in FetchResults : SuburbFetchSettles(i, r)
    \/ \E i \in SuburbCallIds, body \in SuburbBodies : SuburbJsonSettles(i, body)

InitHomeOnly == InitResults /\ searchParams = BaseParams /\ InitHome

SpecHome == InitHomeOnly /\ [][NextHome]_vars

---------------------------------------------------------------------------
(* fetchSuburbs called on its own, with any string: the states of the      *)
(* select and one that is not a key of SUBURBS_BY_STATE.                   *)

UnknownState == "ZZ"
CallStates == PickedStates \cup {UnknownState}

CallFetchSuburbs(state) ==
    /\ StateMissing(state) \/ suburbRequests < MaxSelect
    /\ FetchSuburbs(state)
    /\ UNCHANGED <<selectedState, selectedSuburb, selects>>
    /\ UNCHANGED resultsVars

NextResolve ==
    \/ \E state \in CallStates : CallFetchSuburbs(state)
    \/ \E i \in SuburbCallIds, r \in FetchResults : SuburbFetchSettles(i, r)
    \/ \E i \in SuburbCallIds, body \in SuburbBodies : SuburbJsonSettles(i, body)

SpecResolve == InitHomeOnly /\ [][NextResolve]_vars

---------------------------------------------------------------------------
(* Fairness: the event loop runs every continuation that is ready, React   *)
(* runs the mount effect, and every request and every json() settles (the  *)
(* assumption the termination property is stated under).  Navigation is    *)
(* the user's and is not fair.                                             *)

FairSpec ==
    /\ Spec
    /\ WF_vars(Mount)
    /\ \A i \in AggIds :
          /\ WF_vars(Settle(i))
          /\ WF_vars(AllSettled(i))
          /\ WF_vars(\E body \in Bodies : JsonDone(i, body))

---------------------------------------------------------------------------
(* Properties of the results page.                                         *)

\* The piece of state that holds the result of source s.
Field(s) ==
    CASE s = "intent"   -> aiInsight
      [] s = "services" -> services
      [] s = "seifa"    -> seifa
      [] s = "labour"   -> labour
      [] s = "rulecard" -> rulecard

Fields == <<services, seifa, labour, rulecard, aiInsight>>

\* The value of an absent field: services is empty, the others are null.
AbsentValue(s) == IF s = "services" THEN <<>> ELSE Null

\* The value of the field of s once populated from the answer to query q.
PopulatedValue(s, q) == Written(s, Decoded(s, q))

AllAbsent == \A s \in Sources : Field(s) = AbsentValue(s)

\* The four values that make up the Query.
QueryOf(sp) == <<sp.category, sp.state, sp.suburb, sp.user_query>>
QueryComplete(sp) == \A k \in 1..4 : QueryOf(sp)[k] # ""

\* Invocation i is the only fetchAll this page has run: it started from the
\* initial component state and nothing else writes while it runs.
OnlyInvocation(i) == fetchCalls = 1 /\ DOMAIN aggs = {i}

\* This step is the return of invocation i.
Returns(i) == i \in DOMAIN aggs /\ i \notin DOMAIN aggs'

\* This step is a step of invocation i.
StepOf(i) ==
    /\ i \in DOMAIN aggs
    /\ IF i \in DOMAIN aggs' THEN aggs'[i] # aggs[i] ELSE TRUE

\* The sources whose bodies invocation i has decoded when it returns without
\* a throw: those decoded before, and the one whose json() has just settled.
Succeeded(i) ==
    {s \in Sources : aggs[i].outcome[s] = "good"}
        \cup (IF aggs[i].pc = "json" THEN {Order[aggs[i].at]} ELSE {})

\* C1: every fetchAll invocation (one is started only for a Query with four
\* non-empty values) returns, provided its requests and json() calls settle,
\* and when it returns the page is not loading: it shows the results
\* ("ready") or the error ("failed").
C1_Terminates ==
    \A i \in AggIds :
        (i \in DOMAIN aggs) ~> (i \notin DOMAIN aggs /\ Status \in {"ready", "failed"})

C1_Witness ==
    /\ QueryComplete(searchParams)
    /\ fetchCalls >= 1 /\ DOMAIN aggs = {}
    /\ Status \in {"ready", "failed"}

\* C2: when the only invocation of the page finds none of its five results
\* usable (each fetch rejected or answered with a non-2xx status), it returns
\* with status ready, no error, and all five fields still absent.
C2_AllFailReady ==
    [][\A i \in AggIds :
          (OnlyInvocation(i) /\ aggs[i].pc = "allSettled" /\ Returns(i))
              => (Status' = "ready" /\ error' = NoError /\ AllAbsent')]_vars

C2_Witness ==
    /\ fetchCalls = 1 /\ DOMAIN aggs = {}
    /\ Status = "ready" /\ error = NoError /\ AllAbsent

\* C3: when the only invocation of the page returns without a throw, the
\* fields of exactly the sources that succeeded hold the answers to its
\* query, every other field is absent, and the status is ready.
C3_ExactlySucceeded ==
    [][\A i \in AggIds :
          (OnlyInvocation(i) /\ Returns(i) /\ (AllSettled(i) \/ JsonDone(i, "good")))
              => /\ Status' = "ready"
                 /\ \A s \in Sources :
                       Field(s)' = IF s \in Succeeded(i)
                                   THEN PopulatedValue(s, aggs[i].q)
                                   ELSE AbsentValue(s)]_vars

\* Scenario 8: the service lookup failed, the other four succeeded.
C3_Witness ==
    /\ fetchCalls = 1 /\ DOMAIN aggs = {}
    /\ Status = "ready"
    /\ services = <<>>
    /\ \A s \in Sources \ {"services"} :
          Field(s) = PopulatedValue(s, Deps(BaseParams))

\* C4 (as claimed): when json() of one ok response rejects, the invocation
\* still ends with status ready and no error.
C4_DecodeFailureNotSurfaced ==
    [][\A i \in AggIds :
          (OnlyInvocation(i) /\ JsonDone(i, "invalid"))
              => (Status' = "ready" /\ error' = NoError)]_vars

\* C5 (as claimed): whenever the page shows the error, all five fields are
\* absent.
C5_FailedMeansAllAbsent == Status = "failed" => AllAbsent

\* C6 (as claimed): once a newer invocation has started, no step of an older
\* invocation writes a result field.
C6_NoStaleWrite ==
    [][\A i \in AggIds :
          (i < fetchCalls /\ StepOf(i)) => Fields' = Fields]_vars

\* C7: while requests of an invocation are pending, the invocation stays
\* suspended at Promise.allSettled: it reads no result, and none of its steps
\* changes loading, error or a result field.
C7_SettleAll ==
    [][\A i \in AggIds :
          (i \in DOMAIN aggs /\ aggs[i].pending > 0)
              => /\ i \in DOMAIN aggs'
                 /\ aggs'[i].pc = "allSettled"
                 /\ aggs'[i].outcome = Unread
                 /\ StepOf(i) => (loading' = loading /\ error' = error
                                    /\ Fields' = Fields)]_vars

\* Four requests have settled, one is pending, and the page is still loading.
C7_Witness ==
    \E i \in DOMAIN aggs :
        aggs[i].pending = 1 /\ aggs[i].pc = "allSettled" /\ Status = "loading"

\* C8 (as claimed): when a later invocation, started after the earlier one
\* had returned, returns, every populated field holds an answer to the later
\* invocation's query.
C8_SupersededDestroyed ==
    [][\A i \in AggIds :
          (Returns(i) /\ i >= 2 /\ i = fetchCalls /\ aggs[i].prior = {})
              => \A s \in Sources :
                    \/ Field(s)' = AbsentValue(s)
                    \/ Field(s)' = PopulatedValue(s, aggs[i].q)]_vars

\* C9: a step starts a fetchAll invocation exactly when the page mounts or
\* one of the four Query values changes and all four are non-empty; any
\* other step (a render with the same four values included) starts none, and
\* a page that is idle stays idle.
C9_OncePerQuery ==
    [][LET trigger == /\ \/ ~mounted /\ mounted'
                         \/ QueryOf(searchParams') # QueryOf(searchParams)
                      /\ QueryComplete(searchParams')
       IN  /\ fetchCalls' = IF trigger THEN fetchCalls + 1 ELSE fetchCalls
           /\ trigger => /\ DOMAIN aggs' = DOMAIN aggs \cup {fetchCalls'}
                         /\ aggs'[fetchCalls'].pending = Len(Order)
           /\ ~trigger => DOMAIN aggs' \subseteq DOMAIN aggs
           /\ (Status = "idle" /\ ~trigger) => Status' = "idle"]_vars

\* The URL changed in fullQuery only: still the one invocation of the mount.
C9_Witness ==
    /\ navs = 1 /\ fetchCalls = 1
    /\ searchParams = [BaseParams EXCEPT !.fullQuery = ""]
    /\ \E i \in DOMAIN aggs : aggs[i].pending = Len(Order)

---------------------------------------------------------------------------
(* Properties of the home page.                                            *)

\* C10: selecting the placeholder option calls fetchSuburbs(""), which
\* empties the suburb list and sends no request.
C10_EmptyStateNoRequest ==
    [][(selects' # selects /\ selectedState' = "")
          => /\ availableSuburbs' = <<>>
             /\ suburbRequests' = suburbRequests
             /\ suburbCalls' = suburbCalls]_vars

\* A state was selected and its list loaded, then the placeholder: the list
\* is empty again and only the first selection sent a request.
C10_Witness ==
    /\ selects = 2 /\ selectedState = ""
    /\ availableSuburbs = <<>> /\ suburbRequests = 1 /\ DOMAIN suburbCalls = {}

---------------------------------------------------------------------------
(* fetchAll called twice on one page for the same Query, against mocked    *)
(* responses: each source answers both runs the same way.                  *)

\* A mocked answer: the fetch rejects, or resolves to a non-2xx response, or
\* to an ok response whose body is good or invalid.
MockedResponses == (FetchResults \ {"ok"}) \cup Bodies

\* What the page shows: the five fields, the status derived from loading
\* and error, and the error.
AggregationResult == [fields |-> Fields, status |-> Status, error |-> error]

\* The first if-statement from the k-th on whose mocked result is usable.
NextStop(k) ==
    LET usable == {j \in k..Len(Order) : mocked[Order[j]] \in Bodies}
    IN  IF usable = {} THEN Len(Order) + 1
        ELSE CHOOSE j \in usable : \A j2 \in usable : j <= j2

\* After this step invocation i is decoding the n-th response, or has
\* returned if there is no n-th.
LandsAt(i, n) ==
    IF n <= Len(Order)
    THEN i \in DOMAIN aggs' /\ aggs'[i].at = n
    ELSE i \notin DOMAIN aggs'

\* A direct call of fetchAll, once no earlier call is running.
Aggregate ==
    /\ DOMAIN aggs = {}
    /\ fetchCalls < 2
    /\ FetchAll(Deps(searchParams))
    /\ firstResult' = IF fetchCalls = 1 THEN AggregationResult ELSE firstResult
    /\ UNCHANGED <<searchParams, mounted, navs, services, seifa, labour, rulecard,
                   aiInsight, mocked>>
    /\ UNCHANGED homeVars

MockedAllSettled(i) ==
    /\ AllSettled(i)
    /\ LandsAt(i, NextStop(1))

MockedJsonDone(i) ==
    /\ i \in DOMAIN aggs
    /\ aggs[i].pc = "json"
    /\ LET body == mocked[Order[aggs[i].at]]
       IN  /\ JsonDone(i, body)
           /\ body = "good" => LandsAt(i, NextStop(aggs[i].at + 1))

InitTwice ==
    /\ searchParams \in {sp \in SearchParamsSet : FullyPopulated(Deps(sp))}
    /\ InitState
    /\ mocked \in [Sources -> MockedResponses]
    /\ firstResult = NoResult
    /\ InitHome

NextTwice ==
    \/ Aggregate
    \/ \E i \in AggIds : Settle(i)
    \/ \E i \in AggIds : MockedAllSettled(i)
    \/ \E i \in AggIds : MockedJsonDone(i)

SpecTwice == InitTwice /\ [][NextTwice]_vars

\* C13: when fetchAll has run twice for the same Query against the same
\* mocked responses, the page shows after the second run what it showed
\* after the first: the same fields with the same values, the same status
\* and the same error.
C13_Idempotent ==
    (fetchCalls = 2 /\ DOMAIN aggs = {}) => AggregationResult = firstResult

\* Both runs decoded the AI insight and the services and then threw on the
\* third body: twice the error page over the same two populated fields.
C13_Witness ==
    /\ fetchCalls = 2 /\ DOMAIN aggs = {}
    /\ mocked["seifa"] = "invalid"
    /\ firstResult.status = "failed" /\ Status = "failed"
    /\ aiInsight # Null /\ services # <<>> /\ seifa = Null

\* C14: the step of fetchAll that issues the five requests leaves the page
\* loading with the error cleared; while the first invocation is in flight
\* the status is loading, never idle; and the status leaves idle only by
\* that step and only for loading, never directly for ready or failed.
C14_LoadingBeforeRequests ==
    [][/\ fetchCalls' # fetchCalls
            => /\ Status' = "loading" /\ error' = NoError
               /\ aggs'[fetchCalls'].pending = Len(Order)
       /\ (fetchCalls' = 1 /\ DOMAIN aggs' # {}) => Status' = "loading"
       /\ Status = "idle" => Status' \in {"idle", "loading"}
       /\ (Status = "idle" /\ Status' # "idle") => fetchCalls' = fetchCalls + 1]_vars

\* The first invocation has just issued its five requests, none has
\* settled, and the page shows the spinner with no error.
C14_Witness ==
    /\ fetchCalls = 1 /\ DOMAIN aggs = {1}
    /\ aggs[1].pending = Len(Order)
    /\ Status = "loading" /\ error = NoError

\* C15 (as claimed): while an invocation of fetchAll has not returned (it
\* has unsettled requests or responses it has not applied yet), the status
\* is loading, whatever another invocation started before it has done.
C15_LoadingWhileInFlight == DOMAIN aggs # {} => Status = "loading"

---------------------------------------------------------------------------
(* Properties of fetchSuburbs.                                             *)

\* The eight keys of the static table.
TableKeys == StateOptions \ {""}

\* C11: when the fetch of a fetchSuburbs call for a non-empty state rejects
\* or is answered with a non-success status, the call returns (nothing is
\* thrown to the caller, the list is no longer loading) and the suburb list
\* is the static list of the state if the state is one of the eight table
\* keys, and empty if it is not.
C11_FailureFallsBack ==
    [][\A i \in SuburbCallIds, r \in FetchResults :
          (~Usable(r) /\ SuburbFetchSettles(i, r))
              => /\ suburbCalls[i].state # ""
                 /\ i \notin DOMAIN suburbCalls'
                 /\ loadingSuburbs' = FALSE
                 /\ availableSuburbs' =
                        IF suburbCalls[i].state \in TableKeys
                        THEN SUBURBS_BY_STATE[suburbCalls[i].state]
                        ELSE <<>>]_vars

\* The call for NT has returned with the static list of NT, which the
\* endpoint never serves.
C11_Witness ==
    /\ suburbRequests >= 1 /\ DOMAIN suburbCalls = {}
    /\ ~loadingSuburbs
    /\ availableSuburbs = SUBURBS_BY_STATE["NT"]

\* C12 (as claimed): when json() of an ok suburb-list response settles, the
\* suburb list becomes the server's list (possibly empty) if the body decodes
\* and has a suburbs field, and the static list of the state if the body does
\* not decode or has no suburbs field.
C12_MalformedFallsBack ==
    [][\A i \in SuburbCallIds, body \in SuburbBodies :
          SuburbJsonSettles(i, body)
              => availableSuburbs' =
                    IF body \in {"list", "empty"}
                    THEN SuburbData(suburbCalls[i].state, body).suburbs
                    ELSE Fallback(suburbCalls[i].state)]_vars

\* The lists fetchSuburbs can resolve for a state: what the server sends for
\* it (its list, or an empty one) or the static list.
ResolvedFor(state) == {ServerSuburbs(state), <<>>, Fallback(state)}

\* C16 (as claimed): once every suburb-list request has settled, the suburbs
\* the enabled suburb select offers are a list resolved for the selected
\* state, and a selected suburb is one of such a list.
C16_ListOfSelectedState ==
    (DOMAIN suburbCalls = {} /\ selectedState # "" /\ ~loadingSuburbs)
        => /\ availableSuburbs \in ResolvedFor(selectedState)
           /\ selectedSuburb # ""
                 => \E l \in ResolvedFor(selectedState) :
                       \E k \in 1..Len(l) : l[k] = selectedSuburb

=============================================================================
